---- MODULE Spec2Model ----
(***************************************************************************)
(* Model of the Electron main-process event router of letta-cowork        *)
(* (src/electron/ipc-handlers.ts) and of its in-memory session table      *)
(* (src/electron/libs/runtime-state.ts).                                  *)
(*                                                                         *)
(* JavaScript runs one handler at a time; a handler is atomic up to its   *)
(* `await runLetta(...)`.  A session.start / session.continue handler is  *)
(* therefore two steps: the call (everything up to the await) and the     *)
(* resumption (runLetta resolved with a handle, or rejected).  Between    *)
(* the two, and after, the runner may invoke the callbacks it was given   *)
(* (onEvent, onSessionUpdate) and other requests may be handled.          *)
(*                                                                         *)
(* The prompt, title and cwd of a request are carried through verbatim    *)
(* and decide nothing; they are left out of the events.                   *)
(***************************************************************************)
EXTENDS Integers, Sequences, FiniteSets

\* ------------------------------------------------------------------ bounds
MaxCid == 1        \* conversation ids 1..MaxCid
MaxRuns == 1       \* session.start / session.continue requests handled
MaxEvents == 1     \* onEvent invocations handled
MaxReq == 1        \* stop, delete, list, history and cleanup requests handled
MaxResp == 2       \* permission.response requests handled
MaxTool == 1       \* tool-use ids 1..MaxTool
MaxCards == 2      \* tool-call cards rendered
MaxResults == 2    \* runs of the tool-result card effect

CIDs == 1..MaxCid
\* The runs of a behaviour are numbered in the order of their requests.
\* RunSlots has room for one run more than RunIds: SpecOverlap uses it to
\* follow one more start/continue than the other specifications do.
RunIds == 1..MaxRuns
RunSlots == 1..(MaxRuns + 1)
ToolIds == 1..MaxTool
Cards == 1..MaxCards
MapIds == 1..(2 * (MaxRuns + 1))

\* The id "pending" a start passes to the runner (ipc-handlers.ts:61); it is
\* no conversation id.
PendingSid == 0
\* An event payload without a sessionId field (runner.error, session.list).
NoSid == -1
\* conversationId = null / handle absent
Null == 0

SessionStatus == {"idle", "running", "completed", "error"}
\* The statuses a runner reports through onEvent: how its run ended.
RunnerStatus == {"completed", "error"}
PermissionResults == {"allow", "deny"}
\* Values runLetta may reject with.
Errors == {"E1", "E2"}

VARIABLES
  sessions,        \* runtime-state.ts `sessions`: CIDs -> session or NoSession
  runnerHandles,   \* ipc-handlers.ts `runnerHandles`: CIDs -> run whose handle it is, or Null
  kind,            \* per run: "none" | "start" | "continue"
  pc,              \* per run: handler position "none" | "await" | "returned" | "threw"
  outcome,         \* per run: runLetta's promise "pending" | "ok" | "err"
  errOf,           \* per run: the value runLetta rejected with (Null = none)
  convId,          \* per run: the closure's conversationId (Null = null)
  runMap,          \* per run: the pendingPermissions map handed to the runner
  aborts,          \* per run: number of abort() calls on its handle
  pmap,            \* heap of pendingPermissions maps: MapIds -> set of tool-use ids
  resolves,        \* per map and tool-use id: the results resolve() was invoked with
  runLog,          \* per run: the events its handler and callbacks broadcast, in order
  out,             \* the events the step just taken broadcast, in order
  nreq,            \* stop, delete, list, history and cleanup requests handled so far
  nresp,           \* permission.response requests handled so far
  lastStatus,      \* per id: the status of the latest session.status event broadcast
                   \* for it since its table entry was created ("none": no entry, or none yet)
  last             \* the kind of step just taken

\* The renderer's tool status side-table (runtime-state.ts:72-111).
VARIABLES
  toolStatusMap,        \* `toolStatusMap`: ToolIds -> "none" (no key) or a ToolStatus
  toolStatusListeners,  \* `toolStatusListeners`: the cards whose handleUpdate is in the set
  card,                 \* per tool-call card: its phase, its toolCallId and the status it shows
  called,               \* the cards whose listener the step just taken invoked
  nres                  \* runs of the tool-result card effect so far

routerVars == <<sessions, runnerHandles, kind, pc, outcome, errOf, convId, runMap, aborts,
                pmap, resolves, runLog, out, nreq, nresp, lastStatus, last>>

rendererVars == <<toolStatusMap, toolStatusListeners, card, called, nres>>

vars == <<sessions, runnerHandles, kind, pc, outcome, errOf, convId, runMap, aborts,
          pmap, resolves, runLog, out, nreq, nresp, lastStatus, last,
          toolStatusMap, toolStatusListeners, card, called, nres>>

\* ------------------------------------------------------- runtime-state.ts
NoSession == [status |-> "none", pp |-> Null]

CreateRuntimeSession(s, c, m) ==
  [s EXCEPT ![c] = [status |-> "idle", pp |-> m]]

HasSession(s, c) == c \in CIDs /\ s[c] # NoSession

\* Mutant: updateSession creates the entry when there is none.
UpdateSession_Upsert(s, c, st) ==
  IF c \in CIDs
  THEN [s EXCEPT ![c] = [status |-> st, pp |-> IF HasSession(s, c) THEN @.pp ELSE 1]]
  ELSE s

UpdateSession(s, c, st) ==
  IF HasSession(s, c) THEN [s EXCEPT ![c].status = st] ELSE s

DeleteSession(s, c) == [s EXCEPT ![c] = NoSession]

\* --------------------------------------------------------- ipc-handlers.ts
\* An event as broadcast() receives it, tagged with the run and the code
\* path (via) that produced it.  via: "handler" (a request handler),
\* "update" (onSessionUpdate), "event" (onEvent before conversationId is
\* set, or a continue's onEvent), "bound" (onEvent with conversationId set).
Ev(type, sid, status, msg, run, via) ==
  [type |-> type, sid |-> sid, status |-> status, msg |-> msg,
   run |-> run, via |-> via]

\* What a run's log keeps of an event: its code path, and the type and
\* status of the events the router itself makes (an event forwarded from
\* the runner is logged as "forwarded", whatever it is).
LogEntry(e) ==
  IF e.via \in {"event", "bound"}
  THEN [type |-> "forwarded", via |-> e.via, status |-> "-"]
  ELSE [type |-> e.type, via |-> e.via, status |-> e.status]

\* broadcast(): the event reaches every window.  The model keeps the events
\* of the current step (out), per run the events that run produced, and per
\* id that has an entry the status of the latest session.status event
\* broadcast since the entry was created.
Broadcast(st, e) ==
  [st EXCEPT !.out = Append(@, e),
             !.runLog = IF e.run # Null
                        THEN [@ EXCEPT ![e.run] = Append(@, LogEntry(e))] ELSE @,
             !.lastStatus = IF e.type = "session.status" /\ HasSession(st.sessions, e.sid)
                            THEN [@ EXCEPT ![e.sid] = e.status] ELSE @]

\* createRuntimeSession / deleteSession on a state record: the entry is new
\* (gone), and no session.status event has been broadcast for it yet.
Created(st, c, m) ==
  [st EXCEPT !.sessions = CreateRuntimeSession(st.sessions, c, m),
             !.lastStatus[c] = "none"]

Deleted(st, c) ==
  [st EXCEPT !.sessions = DeleteSession(st.sessions, c),
             !.lastStatus[c] = "none"]

\* Mutant: emit only broadcasts.
EmitSessions_Ignores(s, e) == s

\* Mutant: emit creates the entry a session.status event names.
EmitSessions_Upserts(s, e) ==
  IF e.type = "session.status" THEN UpdateSession_Upsert(s, e.sid, e.status) ELSE s

\* emit(): the table update of a session.status event.
EmitSessions(s, e) ==
  IF e.type = "session.status" THEN UpdateSession(s, e.sid, e.status) ELSE s

\* String(error)
StringOf(err) == <<"String", err>>

\* The map a start allocates at line 52, and the map createRuntimeSession
\* allocates when run r creates a session: two distinct objects.
LocalMap(r) == 2 * r - 1
SessionMap(r) == 2 * r

NextRun == Cardinality({r \in RunSlots : kind[r] # "none"}) + 1

Init ==
  /\ sessions = [c \in CIDs |-> NoSession]
  /\ runnerHandles = [c \in CIDs |-> Null]
  /\ kind = [r \in RunSlots |-> "none"]
  /\ pc = [r \in RunSlots |-> "none"]
  /\ outcome = [r \in RunSlots |-> "pending"]
  /\ errOf = [r \in RunSlots |-> Null]
  /\ convId = [r \in RunSlots |-> Null]
  /\ runMap = [r \in RunSlots |-> Null]
  /\ aborts = [r \in RunSlots |-> 0]
  /\ pmap = [m \in MapIds |-> {}]
  /\ resolves = [m \in MapIds |-> [t \in ToolIds |-> <<>>]]
  /\ runLog = [r \in RunSlots |-> <<>>]
  /\ out = <<>>
  /\ nreq = 0
  /\ nresp = 0
  /\ lastStatus = [c \in CIDs |-> "none"]
  /\ last = "init"
  /\ toolStatusMap = [t \in ToolIds |-> "none"]
  /\ toolStatusListeners = {}
  /\ card = [c \in Cards |-> [phase |-> "none", id |-> Null, shown |-> "none"]]
  /\ called = {}
  /\ nres = 0


\* The part of the state a synchronous handler reads and writes.
Cur == [sessions |-> sessions, runnerHandles |-> runnerHandles,
        aborts |-> aborts, runLog |-> runLog, lastStatus |-> lastStatus,
        out |-> <<>>]

\* emit(event) on a state record.
Emit(st, e) ==
  Broadcast([st EXCEPT !.sessions = EmitSessions(st.sessions, e)], e)

\* Mutant: the handle is aborted but stays in the registry.
AbortHandle_KeepsEntry(st, c) ==
  IF st.runnerHandles[c] # Null
  THEN [st EXCEPT !.aborts[st.runnerHandles[c]] = @ + 1]
  ELSE st

\* `if (handle) { handle.abort(); runnerHandles.delete(conversationId); }`
AbortHandle(st, c) ==
  IF st.runnerHandles[c] # Null
  THEN [st EXCEPT !.aborts[st.runnerHandles[c]] = @ + 1,
                  !.runnerHandles[c] = Null]
  ELSE st

\* Mutant: stop discards the session entry instead of marking it idle.
StopEffect_Discards(st, c) ==
  LET a == AbortHandle(st, c)
      b == Deleted(a, c)
  IN Emit(b, Ev("session.status", c, "idle", Null, Null, "handler"))

\* handleClientEvent, session.stop
StopEffect(st, c) ==
  LET a == AbortHandle(st, c)
      b == [a EXCEPT !.sessions = UpdateSession(a.sessions, c, "idle")]
  IN Emit(b, Ev("session.status", c, "idle", Null, Null, "handler"))

\* handleClientEvent, session.delete
DeleteEffect(st, c) ==
  LET a == AbortHandle(st, c)
      b == Deleted(a, c)
  IN Emit(b, Ev("session.deleted", c, "-", Null, Null, "handler"))

\* Mutant: onEvent of a start forwards the event as the runner made it.
OnEventStart_Verbatim(cid, e, r) ==
  Ev(e.type, e.sid, e.status, Null, r, IF cid # Null THEN "bound" ELSE "event")

\* onEvent of a start (lines 67-74): the event as it reaches emit().
OnEventStart(cid, e, r) ==
  IF cid # Null
  THEN Ev(e.type, IF e.sid # NoSid THEN cid ELSE e.sid, e.status, Null, r, "bound")
  ELSE Ev(e.type, e.sid, e.status, Null, r, "event")

\* onEvent of a continue is emit itself (line 136).
OnEventContinue(e, r) == Ev(e.type, e.sid, e.status, Null, r, "event")

\* Mutant: onSessionUpdate sets the table status but does not emit it.
SessionUpdateEffect_NoStatus(st, u, r, hasHandle) ==
  LET n == Created(st, u, SessionMap(r))
      a == [n EXCEPT !.sessions = UpdateSession(n.sessions, u, "running")]
      b == IF hasHandle THEN [a EXCEPT !.runnerHandles[u] = r] ELSE a
  IN Emit(b, Ev("stream.user_prompt", u, "-", Null, r, "update"))

\* onSessionUpdate of a start (lines 75-94), entered with a conversation id
\* u while conversationId is still null.  hasHandle: the closure's `handle`
\* is already assigned.
SessionUpdateEffect(st, u, r, hasHandle) ==
  LET n == Created(st, u, SessionMap(r))
      a == [n EXCEPT !.sessions = UpdateSession(n.sessions, u, "running")]
      b == IF hasHandle THEN [a EXCEPT !.runnerHandles[u] = r] ELSE a
      c == Emit(b, Ev("session.status", u, "running", Null, r, "update"))
  IN Emit(c, Ev("stream.user_prompt", u, "-", Null, r, "update"))

\* Mutant: session.continue always registers a new entry.
ContinueEffect_Recreates(st, c, r) ==
  LET a == Created(st, c, SessionMap(r))
      b == [a EXCEPT !.sessions = UpdateSession(a.sessions, c, "running")]
      d == Emit(b, Ev("session.status", c, "running", Null, r, "handler"))
  IN Emit(d, Ev("stream.user_prompt", c, "-", Null, r, "handler"))

\* session.continue up to the await (lines 107-123).
ContinueEffect(st, c, r) ==
  LET a == IF HasSession(st.sessions, c) THEN st
           ELSE Created(st, c, SessionMap(r))
      b == [a EXCEPT !.sessions = UpdateSession(a.sessions, c, "running")]
      d == Emit(b, Ev("session.status", c, "running", Null, r, "handler"))
  IN Emit(d, Ev("stream.user_prompt", c, "-", Null, r, "handler"))

\* Mutant: the catch block of session.start only logs to the console.
StartCatchEffect_Silent(st, err, r) == st

\* catch block of session.start (lines 96-102).
StartCatchEffect(st, err, r) ==
  Emit(st, Ev("runner.error", NoSid, "-", StringOf(err), r, "handler"))

\* catch block of session.continue (lines 140-146).
ContinueCatchEffect(st, c, err, r) ==
  LET a == [st EXCEPT !.sessions = UpdateSession(st.sessions, c, "error")]
  IN Emit(a, Ev("session.status", c, "error", StringOf(err), r, "handler"))

\* `for (const [, handle] of runnerHandles) handle.abort()` over the ids cs
\* still to visit.
RECURSIVE AbortAll(_, _)
AbortAll(st, cs) ==
  IF cs = {} THEN st
  ELSE LET c == CHOOSE x \in cs : TRUE
       IN AbortAll([st EXCEPT !.aborts[st.runnerHandles[c]] = @ + 1], cs \ {c})

\* Mutant: cleanup also marks every session idle, as session.stop does.
CleanupEffect_MarksIdle(st) ==
  LET a == AbortAll(st, {c \in CIDs : st.runnerHandles[c] # Null})
  IN [a EXCEPT !.runnerHandles = [c \in CIDs |-> Null],
               !.sessions = [c \in CIDs |-> UpdateSession(a.sessions, c, "idle")[c]]]

\* cleanupAllSessions (lines 193-198).
CleanupEffect(st) ==
  LET a == AbortAll(st, {c \in CIDs : st.runnerHandles[c] # Null})
  IN [a EXCEPT !.runnerHandles = [c \in CIDs |-> Null]]

\* Write a state record back.
Commit(st) ==
  /\ sessions' = st.sessions
  /\ runnerHandles' = st.runnerHandles
  /\ aborts' = st.aborts
  /\ runLog' = st.runLog
  /\ out' = st.out
  /\ lastStatus' = st.lastStatus

\* Events a runner may hand to onEvent.  permission.request and
\* stream.user_prompt payloads carry a sessionId and are not session.status:
\* the router treats them as it treats stream.message.
RunnerEvents ==
  [type : {"stream.message"}, sid : {PendingSid} \cup CIDs, status : {"-"}]
  \cup [type : {"session.status"}, sid : {PendingSid} \cup CIDs, status : RunnerStatus]
  \cup [type : {"runner.error"}, sid : {NoSid}, status : {"-"}]

\* onEvent invocations so far, of all runs
Forwarded ==
  Cardinality(UNION {{<<r, i>> : i \in {j \in 1..Len(runLog[r]) :
                                            runLog[r][j].type = "forwarded"}} :
                     r \in RunSlots})

\* The runner of run r may still call back: it was started and runLetta has
\* not rejected.  (The model follows a run while it is under way; abort()
\* is a request to the runner, which may still deliver events after it.)
RunLive(r) == kind[r] # "none" /\ outcome[r] # "err"

\* ------------------------------------------------------------ the actions
\* handleClientEvent(session.start) up to `await runLetta(...)`.
StartCall(r) ==
  /\ r = NextRun
  /\ kind' = [kind EXCEPT ![r] = "start"]
  /\ pc' = [pc EXCEPT ![r] = "await"]
  /\ runMap' = [runMap EXCEPT ![r] = LocalMap(r)]
  /\ last' = "session.start"
  /\ UNCHANGED rendererVars
  /\ UNCHANGED <<lastStatus, errOf, nresp, sessions, runnerHandles, outcome, convId, aborts,
                 pmap, resolves, runLog, nreq>>
  /\ out' = <<>>

\* handleClientEvent(session.continue) up to `await runLetta(...)`.
ContinueCall(r, c) ==
  /\ r = NextRun
  /\ LET n == ContinueEffect(Cur, c, r)
     IN /\ Commit(n)
        /\ runMap' = [runMap EXCEPT ![r] = n.sessions[c].pp]
  /\ kind' = [kind EXCEPT ![r] = "continue"]
  /\ pc' = [pc EXCEPT ![r] = "await"]
  /\ convId' = [convId EXCEPT ![r] = c]
  /\ last' = "session.continue"
  /\ UNCHANGED rendererVars
  /\ UNCHANGED <<errOf, nresp, outcome, pmap, resolves, nreq>>

\* runLetta resolves with a handle and the handler resumes: a start assigns
\* `handle` and returns; a continue registers the handle (line 139).
RunLettaResolve(r) ==
  /\ pc[r] = "await"
  /\ outcome' = [outcome EXCEPT ![r] = "ok"]
  /\ pc' = [pc EXCEPT ![r] = "returned"]
  /\ runnerHandles' = IF kind[r] = "continue"
                      THEN [runnerHandles EXCEPT ![convId[r]] = r]
                      ELSE runnerHandles
  /\ last' = "resolve"
  /\ UNCHANGED rendererVars
  /\ UNCHANGED <<lastStatus, errOf, nresp, sessions, kind, convId, runMap, aborts,
                 pmap, resolves, runLog, nreq>>
  /\ out' = <<>>

\* runLetta rejects with err and the handler resumes in its catch block.
RunLettaReject(r, err) ==
  /\ pc[r] = "await"
  /\ outcome' = [outcome EXCEPT ![r] = "err"]
  /\ errOf' = [errOf EXCEPT ![r] = err]
  /\ pc' = [pc EXCEPT ![r] = "returned"]
  /\ Commit(IF kind[r] = "start" THEN StartCatchEffect(Cur, err, r)
            ELSE ContinueCatchEffect(Cur, convId[r], err, r))
  /\ last' = "reject"
  /\ UNCHANGED rendererVars
  /\ UNCHANGED <<nresp, kind, convId, runMap, pmap, resolves, nreq>>

\* The runner invokes onEvent(e) of run r.
RunnerEvent(r, e) ==
  /\ RunLive(r) /\ Forwarded < MaxEvents
  /\ Commit(Emit(Cur, IF kind[r] = "start" THEN OnEventStart(convId[r], e, r)
                      ELSE OnEventContinue(e, r)))
  /\ last' = "onEvent"
  /\ UNCHANGED rendererVars
  /\ UNCHANGED <<errOf, nresp, kind, pc, outcome, convId, runMap, pmap,
                 resolves, nreq>>

\* A conversation id is assigned by the SDK when it acknowledges a run: the
\* id a start is acknowledged with is one no earlier run was started or
\* continued with.
FreshId(u) == \A r \in RunSlots : convId[r] # u

\* The runner invokes onSessionUpdate({lettaConversationId: u}) of run r
\* (u = Null: the update carries no conversation id).
RunnerSessionUpdate(r, u) ==
  /\ RunLive(r)
  /\ (kind[r] = "start" /\ u # Null /\ convId[r] = Null) => FreshId(u)
  /\ IF kind[r] = "start" /\ u # Null /\ convId[r] = Null
     THEN /\ convId' = [convId EXCEPT ![r] = u]
          /\ Commit(SessionUpdateEffect(Cur, u, r, outcome[r] = "ok"))
     ELSE Commit(Cur) /\ UNCHANGED convId
  /\ last' = "onSessionUpdate"
  /\ UNCHANGED rendererVars
  /\ UNCHANGED <<errOf, nresp, kind, pc, outcome, runMap, pmap, resolves, nreq>>

\* The runner stores a pending permission for tool-use id t in the
\* pendingPermissions map it was given.
RunnerRegisterPermission(r, t) ==
  /\ RunLive(r) /\ t \notin pmap[runMap[r]]
  /\ pmap' = [pmap EXCEPT ![runMap[r]] = @ \cup {t}]
  /\ last' = "register"
  /\ UNCHANGED rendererVars
  /\ UNCHANGED <<lastStatus, errOf, nresp, sessions, runnerHandles, kind, pc, outcome, convId, runMap,
                 aborts, resolves, runLog, nreq>>
  /\ out' = <<>>

Request == nreq < MaxReq /\ nreq' = nreq + 1

SessionStop(c) ==
  /\ Request
  /\ Commit(StopEffect(Cur, c))
  /\ last' = "session.stop"
  /\ UNCHANGED rendererVars
  /\ UNCHANGED <<errOf, nresp, kind, pc, outcome, convId, runMap, pmap,
                 resolves>>

SessionDelete(c) ==
  /\ Request
  /\ Commit(DeleteEffect(Cur, c))
  /\ last' = "session.delete"
  /\ UNCHANGED rendererVars
  /\ UNCHANGED <<errOf, nresp, kind, pc, outcome, convId, runMap, pmap,
                 resolves>>

\* Mutant: the pending entry is looked up by tool-use id in every map, not
\* in the map of the session the response names.
ResponseResolves_AnyMap(s, pm, rs, c, t, res) ==
  [m \in MapIds |-> IF t \in pm[m] THEN [rs[m] EXCEPT ![t] = Append(@, res)] ELSE rs[m]]

\* handleClientEvent(permission.response) (lines 181-190): the results the
\* pending entry's resolve() has been invoked with, after this response.
ResponseResolves(s, pm, rs, c, t, res) ==
  IF HasSession(s, c) /\ t \in pm[s[c].pp]
  THEN [rs EXCEPT ![s[c].pp][t] = Append(@, res)]
  ELSE rs

PermissionResponse(c, t, res) ==
  /\ nresp < MaxResp /\ nresp' = nresp + 1
  /\ resolves' = ResponseResolves(sessions, pmap, resolves, c, t, res)
  /\ last' = "permission.response"
  /\ UNCHANGED rendererVars
  /\ UNCHANGED <<lastStatus, errOf, nreq, sessions, runnerHandles, kind, pc, outcome, convId, runMap,
                 aborts, pmap, runLog>>
  /\ out' = <<>>

\* Mutant: session.list reports the ids that have a table entry.
ListEffect_Reports(st) ==
  Emit(st, Ev("session.list", NoSid, "-",
              [c \in {d \in CIDs : HasSession(st.sessions, d)} |-> st.sessions[c].status],
              Null, "handler"))

\* handleClientEvent(session.list) (lines 32-37); msg is the payload's
\* `sessions` list.
ListEffect(st) == Emit(st, Ev("session.list", NoSid, "-", <<>>, Null, "handler"))

SessionList ==
  /\ Request
  /\ Commit(ListEffect(Cur))
  /\ last' = "session.list"
  /\ UNCHANGED rendererVars
  /\ UNCHANGED <<errOf, nresp, kind, pc, outcome, convId, runMap, pmap,
                 resolves>>

\* Mutant: session.history reports "idle" whatever the table says.
HistoryEffect_AlwaysIdle(st, c) ==
  Emit(st, Ev("session.history", c, "idle", <<>>, Null, "handler"))

\* handleClientEvent(session.history) (lines 39-49); msg is the payload's
\* `messages` list.
HistoryEffect(st, c) ==
  Emit(st, Ev("session.history", c,
              IF HasSession(st.sessions, c) THEN st.sessions[c].status ELSE "idle",
              <<>>, Null, "handler"))

SessionHistory(c) ==
  /\ Request
  /\ Commit(HistoryEffect(Cur, c))
  /\ last' = "session.history"
  /\ UNCHANGED rendererVars
  /\ UNCHANGED <<errOf, nresp, kind, pc, outcome, convId, runMap, pmap,
                 resolves>>

CleanupAllSessions ==
  /\ Request
  /\ Commit(CleanupEffect(Cur))
  /\ last' = "cleanup"
  /\ UNCHANGED rendererVars
  /\ UNCHANGED <<errOf, nresp, kind, pc, outcome, convId, runMap, pmap,
                 resolves>>

\* The steps are explored in groups that do not read each other's writes
\* (Next, further down, is all of them).
\* The permission steps read the session table (which entry exists, which
\* map it holds) and write only pmap and resolves, which no other step
\* reads; session.list and session.history write nothing; and
\* cleanupAllSessions runs when the application quits.  SpecLifecycle is
\* the life cycle of sessions and runs; SpecPermissions is the permission
\* steps with the steps that create and remove table entries (the return
\* of runLetta writes the registry and statuses, not the entries or maps).
NextLifecycle ==
  \/ \E r \in RunIds : StartCall(r)
  \/ \E r \in RunIds, c \in CIDs : ContinueCall(r, c)
  \/ \E r \in RunIds : RunLettaResolve(r)
  \/ \E r \in RunIds, err \in Errors : RunLettaReject(r, err)
  \/ \E r \in RunIds, e \in RunnerEvents : RunnerEvent(r, e)
  \/ \E r \in RunIds, u \in {Null} \cup CIDs : RunnerSessionUpdate(r, u)
  \/ \E c \in CIDs : SessionStop(c)
  \/ \E c \in CIDs : SessionDelete(c)

SpecLifecycle == Init /\ [][NextLifecycle]_vars

\* The life cycle with one more run, so that two runs of one conversation
\* id overlap.
NextOverlap ==
  \/ \E r \in RunSlots : StartCall(r)
  \/ \E r \in RunSlots, c \in CIDs : ContinueCall(r, c)
  \/ \E r \in RunSlots : RunLettaResolve(r)
  \/ \E r \in RunSlots, err \in Errors : RunLettaReject(r, err)
  \/ \E r \in RunSlots, e \in RunnerEvents : RunnerEvent(r, e)
  \/ \E r \in RunSlots, u \in {Null} \cup CIDs : RunnerSessionUpdate(r, u)
  \/ \E c \in CIDs : SessionStop(c)
  \/ \E c \in CIDs : SessionDelete(c)

SpecOverlap == Init /\ [][NextOverlap]_vars

NextPermissions ==
  \/ \E r \in RunIds : StartCall(r)
  \/ \E r \in RunIds, c \in CIDs : ContinueCall(r, c)
  \/ \E r \in RunIds, u \in {Null} \cup CIDs : RunnerSessionUpdate(r, u)
  \/ \E r \in RunIds, t \in ToolIds : RunnerRegisterPermission(r, t)
  \/ \E c \in CIDs : SessionDelete(c)
  \/ \E c \in CIDs, t \in ToolIds, res \in PermissionResults : PermissionResponse(c, t, res)

SpecPermissions == Init /\ [][NextPermissions]_vars

\* The steps that create, remove and mark table entries, with one more
\* run, so that a continue finds the entry an earlier run left.  (The
\* return of runLetta and session.stop write the registry and set the
\* statuses "error" and "idle"; session.continue reads neither, and the
\* runner's session.status events set statuses too.)
NextResume ==
  \/ \E r \in RunSlots : StartCall(r)
  \/ \E r \in RunSlots, c \in CIDs : ContinueCall(r, c)
  \/ \E r \in RunSlots, e \in RunnerEvents : RunnerEvent(r, e)
  \/ \E r \in RunSlots, u \in {Null} \cup CIDs : RunnerSessionUpdate(r, u)
  \/ \E c \in CIDs : SessionDelete(c)

SpecResume == Init /\ [][NextResume]_vars

\* The two query requests, with the steps that create, remove and mark
\* table entries.  (The queries read the table only; the return of
\* runLetta writes the registry, and the status "error" that a rejected
\* continue sets is set by the runner's session.status events too.)
NextQueries ==
  \/ \E r \in RunIds : StartCall(r)
  \/ \E r \in RunIds, c \in CIDs : ContinueCall(r, c)
  \/ \E r \in RunIds, e \in RunnerEvents : RunnerEvent(r, e)
  \/ \E r \in RunIds, u \in {Null} \cup CIDs : RunnerSessionUpdate(r, u)
  \/ \E c \in CIDs : SessionStop(c)
  \/ \E c \in CIDs : SessionDelete(c)
  \/ SessionList
  \/ \E c \in CIDs : SessionHistory(c)

SpecQueries == Init /\ [][NextQueries]_vars

\* The callbacks of a run that is under way, with the requests that create
\* and remove the table entries its events name: what may follow a
\* session.delete is these callbacks, permission responses, and the
\* requests that start or resume a run.  (No pending permission is registered here: a response for an id
\* without an entry returns at `if (!session) return`, whatever the maps
\* hold.)
NextRemoval ==
  \/ \E r \in RunIds : StartCall(r)
  \/ \E r \in RunIds, c \in CIDs : ContinueCall(r, c)
  \/ \E r \in RunIds, e \in RunnerEvents : RunnerEvent(r, e)
  \/ \E r \in RunIds, u \in {Null} \cup CIDs : RunnerSessionUpdate(r, u)
  \/ \E c \in CIDs : SessionDelete(c)
  \/ \E c \in CIDs, t \in ToolIds, res \in PermissionResults : PermissionResponse(c, t, res)

SpecRemoval == Init /\ [][NextRemoval]_vars

\* cleanupAllSessions, which the application calls when it quits, with
\* the steps that write the handle registry and the table entries and
\* end a run.  (A runner event writes a status and is broadcast; it leaves
\* the registry alone.)
NextCleanup ==
  \/ \E r \in RunIds : StartCall(r)
  \/ \E r \in RunIds, c \in CIDs : ContinueCall(r, c)
  \/ \E r \in RunIds : RunLettaResolve(r)
  \/ \E r \in RunIds, err \in Errors : RunLettaReject(r, err)
  \/ \E r \in RunIds, u \in {Null} \cup CIDs : RunnerSessionUpdate(r, u)
  \/ \E c \in CIDs : SessionStop(c)
  \/ \E c \in CIDs : SessionDelete(c)
  \/ CleanupAllSessions

SpecCleanup == Init /\ [][NextCleanup]_vars

\* ------------------------------------------ runtime-state.ts, the renderer
ToolStatus == {"pending", "success", "error"}

\* The side-table and its consumers, as one record.
Ui == [map |-> toolStatusMap, listeners |-> toolStatusListeners, card |-> card,
       called |-> {}]

\* A listener is handleUpdate of useToolStatus (line 106): the card shows
\* toolStatusMap.get(toolCallId).
Notify(ui, cs) ==
  [ui EXCEPT !.called = cs,
             !.card = [c \in Cards |->
                         IF c \in cs
                         THEN [ui.card[c] EXCEPT !.shown = ui.map[ui.card[c].id]]
                         ELSE ui.card[c]]]

\* Mutant: the status is stored and no listener is invoked.
SetToolStatus_Quiet(ui, t, status) ==
  IF t = Null THEN ui ELSE [ui EXCEPT !.map[t] = status]

\* setToolStatus (lines 94-98)
SetToolStatus(ui, t, status) ==
  IF t = Null THEN ui
  ELSE Notify([ui EXCEPT !.map[t] = status], ui.listeners)

\* Mutant: the tool-call card sets "pending" whatever the table holds.
ToolCallCardEffect_AlwaysPending(ui, t) ==
  SetToolStatus(ui, t, "pending")

\* The effect of ToolCallCard (lines 222-226)
ToolCallCardEffect(ui, t) ==
  IF t # Null /\ ui.map[t] = "none" THEN SetToolStatus(ui, t, "pending") ELSE ui

\* The effect of useToolStatus (lines 104-109): subscribe
Subscribe(ui, c, t) ==
  IF t = Null THEN ui ELSE [ui EXCEPT !.listeners = @ \cup {c}]

\* The effect of ToolResultCard (line 158)
ToolResultCardEffect(ui, t, isError) ==
  SetToolStatus(ui, t, IF isError THEN "error" ELSE "success")

CommitUi(ui) ==
  /\ toolStatusMap' = ui.map
  /\ toolStatusListeners' = ui.listeners
  /\ card' = ui.card
  /\ called' = ui.called

\* A tool-call card is rendered for the first time with toolCallId t
\* (Null: undefined): useState's initializer reads the table (lines 101-103).
RenderToolCallCard(c, t) ==
  /\ card[c].phase = "none"
  /\ \A d \in Cards : d < c => card[d].phase # "none"
  /\ CommitUi([Ui EXCEPT !.card[c] =
                 [phase |-> "rendered", id |-> t,
                  shown |-> IF t = Null THEN "none" ELSE toolStatusMap[t]]])
  /\ UNCHANGED <<nres, routerVars>>

\* The effects of a rendered tool-call card run, in hook order: the
\* subscription of useToolStatus, then the card's own effect.
MountToolCallCard(c) ==
  /\ card[c].phase = "rendered"
  /\ LET a == Subscribe(Ui, c, card[c].id)
         b == ToolCallCardEffect(a, card[c].id)
     IN CommitUi([b EXCEPT !.card[c].phase = "mounted"])
  /\ UNCHANGED <<nres, routerVars>>

\* A mounted tool-call card is removed: the effect's cleanup (line 108).
UnmountToolCallCard(c) ==
  /\ card[c].phase = "mounted"
  /\ CommitUi([Ui EXCEPT !.card[c].phase = "unmounted",
                         !.listeners = @ \ {c}])
  /\ UNCHANGED <<nres, routerVars>>

\* The effect of a tool-result card runs for a message with toolCallId t.
MountToolResultCard(t, isError) ==
  /\ nres < MaxResults /\ nres' = nres + 1
  /\ CommitUi(ToolResultCardEffect(Ui, t, isError))
  /\ UNCHANGED routerVars

NextRenderer ==
  \/ \E c \in Cards, t \in ToolIds \cup {Null} : RenderToolCallCard(c, t)
  \/ \E c \in Cards : MountToolCallCard(c)
  \/ \E c \in Cards : UnmountToolCallCard(c)
  \/ \E t \in ToolIds \cup {Null}, isError \in BOOLEAN : MountToolResultCard(t, isError)

SpecRenderer == Init /\ [][NextRenderer]_vars

Next ==
  \/ \E r \in RunSlots : StartCall(r)
  \/ \E r \in RunSlots, c \in CIDs : ContinueCall(r, c)
  \/ \E r \in RunSlots : RunLettaResolve(r)
  \/ \E r \in RunSlots, err \in Errors : RunLettaReject(r, err)
  \/ \E r \in RunSlots, e \in RunnerEvents : RunnerEvent(r, e)
  \/ \E r \in RunSlots, u \in {Null} \cup CIDs : RunnerSessionUpdate(r, u)
  \/ \E r \in RunSlots, t \in ToolIds : RunnerRegisterPermission(r, t)
  \/ \E c \in CIDs : SessionStop(c)
  \/ \E c \in CIDs : SessionDelete(c)
  \/ \E c \in CIDs, t \in ToolIds, res \in PermissionResults : PermissionResponse(c, t, res)
  \/ SessionList
  \/ \E c \in CIDs : SessionHistory(c)
  \/ CleanupAllSessions
  \/ NextRenderer

Spec == Init /\ [][Next]_vars

TypeOK ==
  /\ \A c \in CIDs : sessions[c] = NoSession
        \/ (sessions[c].status \in SessionStatus /\ sessions[c].pp \in MapIds)
  /\ \A c \in CIDs : runnerHandles[c] \in {Null} \cup RunSlots
  /\ \A r \in RunSlots : aborts[r] \in 0..1

\* ----------------------------------------------------------------- claims
\* The events session.stop and session.delete broadcast for id c.
StopEvent(c) == Ev("session.status", c, "idle", Null, Null, "handler")
DeletedEvent(c) == Ev("session.deleted", c, "-", Null, Null, "handler")

\* The step just taken handled session.stop / session.delete for id c.
JustStopped(c) == last = "session.stop" /\ out = <<StopEvent(c)>>
JustDeleted(c) == last = "session.delete" /\ out = <<DeletedEvent(c)>>

\* Run r was started for conversation id c (a continue of c, or a start the
\* runner acknowledged with c) and is under way.
RunFor(r, c) == RunLive(r) /\ convId[r] = c

\* C1: when session.stop or session.delete for an id has been handled, every
\* run started for that id and still under way has had abort() invoked,
\* also a run whose start/continue handler is still at its await.
C1_StopAbortsEveryRun ==
  \A c \in CIDs :
    (JustStopped(c) \/ JustDeleted(c)) =>
      \A r \in RunSlots : RunFor(r, c) => aborts[r] >= 1

\* Run r holds a handle (runLetta resolved) that was never aborted.
ActiveRun(r) == kind[r] # "none" /\ outcome[r] = "ok" /\ aborts[r] = 0

\* C2: at most one active run per conversation id: once a new run's handle
\* exists for an id, no earlier run of that id is still active.
C2_OneActiveRunPerId ==
  \A c \in CIDs :
    Cardinality({r \in RunSlots : ActiveRun(r) /\ convId[r] = c}) <= 1

\* C3: the resolve callback of a pending permission is never invoked a
\* second time, whatever permission.response events arrive.
C3_ResolvedAtMostOnce ==
  \A m \in MapIds, t \in ToolIds : Len(resolves[m][t]) <= 1

\* The session.status "running" entry onSessionUpdate leaves in a run's log.
RunningEntry == [type |-> "session.status", via |-> "update", status |-> "running"]

RunningAt(r) == {i \in 1..Len(runLog[r]) : runLog[r][i] = RunningEntry}

\* A start whose runner delivered a session update carrying a conversation id.
Acknowledged(r) == kind[r] = "start" /\ convId[r] # Null

\* C4 as claimed: an acknowledged start has produced exactly one "running"
\* broadcast, and it precedes every event forwarded from the runner for
\* that run.
C4_RunningBeforeEveryEvent ==
  \A r \in RunSlots :
    Acknowledged(r) =>
      /\ Cardinality(RunningAt(r)) = 1
      /\ \A i \in 1..Len(runLog[r]) :
           runLog[r][i].type = "forwarded" => \E j \in RunningAt(r) : j < i

\* C4 as amended: an acknowledged start has produced exactly one "running"
\* broadcast, however many session updates were delivered, and it precedes
\* every event forwarded once the conversation id is assigned (events the
\* runner delivers before the session update are forwarded before it).
C4_RunningBeforeLaterEvents ==
  \A r \in RunSlots :
    Acknowledged(r) =>
      /\ Cardinality(RunningAt(r)) = 1
      /\ \A i \in 1..Len(runLog[r]) :
           runLog[r][i].via = "bound" => \E j \in RunningAt(r) : j < i

\* An acknowledged start with an event forwarded after its "running"
\* broadcast and a further session update delivered since.
C4_Witness ==
  \E r \in RunSlots :
    /\ Acknowledged(r)
    /\ \E i \in 1..Len(runLog[r]) : runLog[r][i].via = "bound"
    /\ last = "onSessionUpdate"

\* The error event of a failed run r.
ErrorEvent(r) ==
  IF kind[r] = "start"
  THEN Ev("runner.error", NoSid, "-", StringOf(errOf[r]), r, "handler")
  ELSE Ev("session.status", convId[r], "error", StringOf(errOf[r]), r, "handler")

ErrorEntries(r) ==
  {i \in 1..Len(runLog[r]) : runLog[r][i] = LogEntry(ErrorEvent(r))}

\* C5: when runLetta rejects, the handler returns normally and has broadcast
\* exactly one error event carrying String(error): runner.error for a
\* start, session.status "error" for a continue.
C5_RejectionSurfacedOnce ==
  /\ \A r \in RunSlots :
       outcome[r] = "err" => pc[r] = "returned" /\ Cardinality(ErrorEntries(r)) = 1
  /\ last = "reject" =>
       \E r \in RunSlots : outcome[r] = "err" /\ out = <<ErrorEvent(r)>>

\* runLetta has just rejected for a start the runner had acknowledged, and
\* the handler has broadcast its error event.
C5_Witness ==
  /\ last = "reject"
  /\ \E r \in RunSlots :
       /\ kind[r] = "start" /\ outcome[r] = "err" /\ convId[r] # Null
       /\ pc[r] = "returned"
       /\ out = <<ErrorEvent(r)>>

\* C6: when the runner call of a start or continue has failed and the
\* handler has returned, the session of that request (if it has a table
\* entry) has status "error".
C6_FailedRunMarksSessionErrored ==
  last = "reject" =>
    \A r \in RunSlots :
      (outcome[r] = "err" /\ out = <<ErrorEvent(r)>> /\ HasSession(sessions, convId[r]))
        => sessions[convId[r]].status = "error"

\* Neither a table entry nor a registered handle exists for id c.
Unknown(c) == ~HasSession(sessions, c) /\ runnerHandles[c] = Null

StateKept ==
  sessions' = sessions /\ runnerHandles' = runnerHandles /\ aborts' = aborts

\* C7 as claimed: session.stop / session.delete for an id with no table
\* entry and no handle leaves table and registry unchanged, aborts nothing
\* and broadcasts no event.
C7_UnknownStopDeleteSilent ==
  [][\A c \in CIDs :
       (/\ Unknown(c) /\ last' \in {"session.stop", "session.delete"}
        /\ (SessionStop(c) \/ SessionDelete(c)))
         => (StateKept /\ out' = <<>>)]_vars

\* C7 as amended: session.stop / session.delete for an id with no table
\* entry and no handle leaves table and registry unchanged and aborts
\* nothing; it still broadcasts its one event (session.status "idle" for
\* stop, session.deleted for delete).
C7_UnknownStopDeleteKeepsState ==
  [][\A c \in CIDs :
       /\ (Unknown(c) /\ last' = "session.stop" /\ SessionStop(c))
            => (StateKept /\ out' = <<StopEvent(c)>>)
       /\ (Unknown(c) /\ last' = "session.delete" /\ SessionDelete(c))
            => (StateKept /\ out' = <<DeletedEvent(c)>>)]_vars

\* A stop was handled when nothing had ever been started.
C7_Witness ==
  /\ \E c \in CIDs : JustStopped(c)
  /\ \A r \in RunSlots : kind[r] = "none"
  /\ \A c \in CIDs : sessions[c] = NoSession

\* The response for (c, t) finds a pending entry.
Matches(c, t) == HasSession(sessions, c) /\ t \in pmap[sessions[c].pp]

\* C8: a permission.response whose session has no table entry, or whose
\* session holds no pending entry for the tool-use id, invokes no resolve
\* callback, broadcasts nothing and changes no table, map or registry.
C8_UnmatchedResponseIsNoOp ==
  [][\A c \in CIDs, t \in ToolIds, res \in PermissionResults :
       (PermissionResponse(c, t, res) /\ ~Matches(c, t))
         => /\ resolves' = resolves /\ pmap' = pmap /\ out' = <<>>
            /\ StateKept /\ runLog' = runLog]_vars

\* A response was handled while a session and a pending entry existed, and
\* no resolve callback has ever been invoked.
C8_Witness ==
  /\ last = "permission.response"
  /\ \E c \in CIDs : HasSession(sessions, c)
  /\ \E m \in MapIds : pmap[m] # {}
  /\ \A m \in MapIds, t \in ToolIds : resolves[m][t] = <<>>

SameState(a, b) ==
  a.sessions = b.sessions /\ a.runnerHandles = b.runnerHandles /\ a.aborts = b.aborts

\* C9: from every reachable state and for every id, handling session.stop
\* (session.delete) twice in succession leaves table and registry as
\* handling it once does, and the second handling aborts no handle.
C9_StopDeleteIdempotent ==
  \A c \in CIDs :
    /\ SameState(StopEffect(StopEffect(Cur, c), c), StopEffect(Cur, c))
    /\ SameState(DeleteEffect(DeleteEffect(Cur, c), c), DeleteEffect(Cur, c))

\* A stop has just aborted the handle of a run and left its session idle.
C9_Witness ==
  \E c \in CIDs, r \in RunSlots :
    /\ JustStopped(c) /\ convId[r] = c /\ aborts[r] = 1
    /\ HasSession(sessions, c) /\ sessions[c].status = "idle"

\* A start is acknowledged by the runner with id c.
StartAcknowledged(c) ==
  \E r \in RunSlots : kind[r] = "start" /\ convId[r] = Null /\ RunnerSessionUpdate(r, c)

Appears(c) == ~HasSession(sessions, c) /\ HasSession(sessions', c)
Disappears(c) == HasSession(sessions, c) /\ ~HasSession(sessions', c)

\* C10 as claimed: a table entry appears only when a start is acknowledged
\* with its id, and disappears only when session.delete for its id is
\* handled.
C10_EntriesOnlyByStartAck ==
  [][\A c \in CIDs :
       /\ Appears(c) => StartAcknowledged(c)
       /\ Disappears(c) => SessionDelete(c)]_vars

\* C10 as amended: a table entry appears only when a start is acknowledged
\* with its id or when session.continue is handled for an id that has no
\* entry, and disappears only when session.delete for its id is handled.
C10_EntriesOnlyByStartAckOrContinue ==
  [][\A c \in CIDs :
       /\ Appears(c) => (StartAcknowledged(c) \/ \E r \in RunSlots : ContinueCall(r, c))
       /\ Disappears(c) => SessionDelete(c)]_vars

\* The entry a continue created for its id has just been removed by
\* session.delete for that id.
C10_Witness ==
  \E c \in CIDs, r \in RunSlots :
    /\ JustDeleted(c) /\ ~HasSession(sessions, c)
    /\ kind[r] = "continue" /\ convId[r] = c
    /\ runMap[r] = SessionMap(r)

\* The events session.list and session.history broadcast.
ListEvent == Ev("session.list", NoSid, "-", <<>>, Null, "handler")
HistoryEvent(c, status) == Ev("session.history", c, status, <<>>, Null, "handler")

\* No table entry, handle or abort count changes and no run is started or
\* resumed.
QueryFrame ==
  /\ StateKept
  /\ kind' = kind /\ pc' = pc /\ outcome' = outcome /\ convId' = convId
  /\ runLog' = runLog /\ pmap' = pmap /\ resolves' = resolves

\* C11: session.list broadcasts one session.list event with an empty
\* sessions list, whatever the table holds; session.history for an id
\* broadcasts one session.history event with empty messages and the table
\* status of the id ("idle" when it has no entry); neither changes the
\* table or the registry or invokes the runner.
C11_ListAndHistoryAreStubs ==
  [][/\ SessionList => (out' = <<ListEvent>> /\ QueryFrame)
     /\ \A c \in CIDs :
          SessionHistory(c) =>
            /\ out' = <<HistoryEvent(c, IF HasSession(sessions, c)
                                        THEN sessions[c].status ELSE "idle")>>
            /\ QueryFrame]_vars

\* session.history has just reported an entry that is not idle.
C11_Witness ==
  /\ last = "session.history"
  /\ \E c \in CIDs :
       /\ HasSession(sessions, c) /\ sessions[c].status # "idle"
       /\ out = <<HistoryEvent(c, sessions[c].status)>>

\* The step just taken stored a status in the side-table.
StatusWritten ==
  \/ \E t \in ToolIds, isError \in BOOLEAN : MountToolResultCard(t, isError)
  \/ \E c \in Cards :
       MountToolCallCard(c) /\ card[c].id # Null /\ toolStatusMap[card[c].id] = "none"

\* C12: the effect of a tool-call card gives an id the table does not hold
\* the status "pending" and leaves an id that is "success" or "error" as it
\* is; the effect of a tool-result card sets "error" when isError and
\* "success" otherwise; and every status write invokes the listener of
\* every subscribed card, which then shows the table's status of its id.
C12_ToolStatusDrivenByResults ==
  [][/\ \A c \in Cards :
          (MountToolCallCard(c) /\ card[c].id # Null) =>
            /\ toolStatusMap[card[c].id] = "none"
                 => toolStatusMap'[card[c].id] = "pending"
            /\ toolStatusMap[card[c].id] \in {"success", "error"}
                 => toolStatusMap'[card[c].id] = toolStatusMap[card[c].id]
     /\ \A t \in ToolIds, isError \in BOOLEAN :
          MountToolResultCard(t, isError) =>
            toolStatusMap'[t] = IF isError THEN "error" ELSE "success"
     /\ StatusWritten =>
          /\ called' = toolStatusListeners'
          /\ \A c \in toolStatusListeners' :
               card'[c].shown = toolStatusMap'[card'[c].id]]_vars

\* A result marked an id "error" while one card for it was subscribed (it
\* shows "error") and another was rendered but not yet mounted; the second
\* card has mounted since and the id is still "error".
C12_Witness ==
  \E t \in ToolIds, c1, c2 \in Cards :
    /\ toolStatusMap[t] = "error"
    /\ card[c1] = [phase |-> "mounted", id |-> t, shown |-> "error"]
    /\ card[c2] = [phase |-> "mounted", id |-> t, shown |-> "pending"]

\* The runner of the acknowledged start r holds a pending permission for t
\* in the map it was given, and the session run r created is in the table.
PendingOfStart(r, c, t) ==
  /\ Acknowledged(r) /\ convId[r] = c
  /\ HasSession(sessions, c) /\ sessions[c].pp = SessionMap(r)
  /\ t \in pmap[runMap[r]]

\* C13: when the runner of a start-initiated session has registered a
\* pending permission for t in the map it was given, handling a
\* permission.response for (the session's conversation id, t) invokes that
\* entry's resolve callback with the response's result.
C13_StartPermissionResolved ==
  [][\A c \in CIDs, t \in ToolIds, res \in PermissionResults, r \in RunSlots :
       (PendingOfStart(r, c, t) /\ PermissionResponse(c, t, res))
         => resolves'[runMap[r]][t] = Append(resolves[runMap[r]][t], res)]_vars

\* The step completes, for the start r, the pair "runLetta returned a
\* handle" and "the runner delivered a conversation id".
BothHappen(r) ==
  /\ kind[r] = "start"
  /\ \/ RunLettaResolve(r) /\ convId[r] # Null
     \/ \E u \in CIDs : outcome[r] = "ok" /\ convId[r] = Null /\ RunnerSessionUpdate(r, u)

\* C14: once runLetta has returned the handle of a start and the runner has
\* delivered its conversation id, in either order, the handle is in the
\* registry under that conversation id.
C14_StartHandleRegistered ==
  [][\A r \in RunSlots : BothHappen(r) => runnerHandles'[convId'[r]] = r]_vars

\* C15: an event with a sessionId that the runner of a start hands to
\* onEvent after the conversation id is assigned is broadcast with that
\* conversation id as its sessionId, whatever sessionId it came with; if it
\* is a session.status event, the table entry of that conversation id (if
\* there is one) takes its status, and no other entry changes.
C15_EventsCarryConversationId ==
  [][last' = "onEvent" =>
       \A r \in {x \in RunSlots : kind[x] = "start" /\ convId[x] # Null
                                   /\ runLog'[x] # runLog[x]} :
         \A e \in RunnerEvents :
           (e.sid # NoSid /\ RunnerEvent(r, e))
             => /\ out' = <<Ev(e.type, convId[r], e.status, Null, r, "bound")>>
                /\ \A c \in CIDs :
                     sessions'[c] =
                       IF c = convId[r] /\ HasSession(sessions, c)
                                        /\ e.type = "session.status"
                       THEN [sessions[c] EXCEPT !.status = e.status]
                       ELSE sessions[c]]_vars

\* A session.status event of an acknowledged start has just been forwarded
\* and the entry of the start's conversation id has taken its status.
C15_Witness ==
  /\ last = "onEvent"
  /\ \E r \in RunSlots :
       /\ Acknowledged(r)
       /\ out = <<Ev("session.status", convId[r], "completed", Null, r, "bound")>>
       /\ HasSession(sessions, convId[r])
       /\ sessions[convId[r]].status = "completed"

\* The two events session.continue broadcasts for id c before its await.
ContinueRunning(c, r) == Ev("session.status", c, "running", Null, r, "handler")
ContinuePrompt(c, r) == Ev("stream.user_prompt", c, "-", Null, r, "handler")

\* The log of every continue begins with its "running" status and its user
\* prompt: whatever its runner delivered was broadcast after them.
ContinueLogBegins ==
  \A r \in RunSlots :
    kind[r] = "continue" =>
      /\ Len(runLog[r]) >= 2
      /\ runLog[r][1] = [type |-> "session.status", via |-> "handler", status |-> "running"]
      /\ runLog[r][2] = [type |-> "stream.user_prompt", via |-> "handler", status |-> "-"]

\* C16: handling session.continue for an id leaves a table entry for the
\* id with status "running": the entry it found, with the same
\* pendingPermissions map, or a new one when there was none; it broadcasts
\* session.status "running" and then stream.user_prompt for the id and
\* nothing else, before the runner is invoked, so that every event of the
\* run is broadcast after them.
C16_ContinueMarksRunningFirst ==
  [][/\ last' = "session.continue" =>
          \A r \in RunSlots, c \in CIDs :
          ContinueCall(r, c) =>
            /\ HasSession(sessions', c)
            /\ sessions'[c].status = "running"
            /\ sessions'[c].pp = IF HasSession(sessions, c) THEN sessions[c].pp
                                 ELSE SessionMap(r)
            /\ \A d \in CIDs \ {c} : sessions'[d] = sessions[d]
            /\ out' = <<ContinueRunning(c, r), ContinuePrompt(c, r)>>
            /\ pc'[r] = "await" /\ runMap'[r] = sessions'[c].pp
     /\ ContinueLogBegins']_vars

\* A continue found the entry an earlier run had made (it holds that run's
\* map), and its runner has since delivered an event.
C16_Witness ==
  \E r \in RunSlots :
    /\ kind[r] = "continue"
    /\ HasSession(sessions, convId[r])
    /\ sessions[convId[r]].pp # SessionMap(r)
    /\ runMap[r] = sessions[convId[r]].pp
    /\ \E i \in 1..Len(runLog[r]) : runLog[r][i].type = "forwarded"

\* C17: between steps, every id that has a table entry and for which a
\* session.status event has been broadcast since the entry was created has
\* the status that the latest such event carried.
C17_StatusMatchesLastBroadcast ==
  \A c \in CIDs :
    (HasSession(sessions, c) /\ lastStatus[c] # "none")
      => sessions[c].status = lastStatus[c]

\* The runner has just reported how its run ended, and the entry carries
\* that status.
C17_Witness ==
  /\ last = "onEvent"
  /\ \E c \in CIDs :
       /\ HasSession(sessions, c)
       /\ lastStatus[c] \in RunnerStatus
       /\ sessions[c].status = lastStatus[c]

\* C18: when session.delete for an id is handled, the id has no table entry
\* afterwards and session.deleted for it is broadcast; and an id that has
\* no entry has none after a runner event (a session.status event
\* included) or a permission response.
C18_DeletedStaysAbsent ==
  [][\A c \in CIDs :
       /\ (last' = "session.delete" /\ SessionDelete(c)) =>
            (~HasSession(sessions', c) /\ out' = <<DeletedEvent(c)>>)
       /\ (~HasSession(sessions, c) /\ last' \in {"onEvent", "permission.response"})
            => ~HasSession(sessions', c)]_vars

\* The run that resumed an id, whose entry session.delete has removed
\* since, has just delivered a session.status event for that id, and the
\* id still has no entry.
C18_Witness ==
  \E c \in CIDs, r \in RunSlots :
    /\ kind[r] = "continue" /\ convId[r] = c
    /\ last = "onEvent"
    /\ Len(out) = 1 /\ out[1].type = "session.status" /\ out[1].sid = c
    /\ ~HasSession(sessions, c)

\* C19: every conversation id that has a handle in the handle registry
\* has a session-table entry.
C19_HandleImpliesEntry ==
  \A c \in CIDs : runnerHandles[c] # Null => HasSession(sessions, c)

\* The handles in the registry.
Registered == {runnerHandles[c] : c \in CIDs} \ {Null}

\* C20: cleanupAllSessions calls abort() once on every handle that is in
\* the registry and on no other, empties the registry, leaves the session
\* table as it was and broadcasts nothing.
C20_CleanupAbortsAndClears ==
  [][(last' = "cleanup" /\ CleanupAllSessions) =>
       /\ \A r \in RunSlots :
            aborts'[r] = IF r \in Registered THEN aborts[r] + 1 ELSE aborts[r]
       /\ \A c \in CIDs : runnerHandles'[c] = Null
       /\ sessions' = sessions
       /\ out' = <<>>]_vars

\* cleanupAllSessions has just aborted the handle of a run, and the session
\* of that run is still "running", with no handle.
C20_Witness ==
  /\ last = "cleanup" /\ out = <<>>
  /\ \E c \in CIDs, r \in RunSlots :
       /\ convId[r] = c /\ outcome[r] = "ok" /\ aborts[r] = 1
       /\ runnerHandles[c] = Null
       /\ HasSession(sessions, c) /\ sessions[c].status = "running"

====
